---------------------------- MODULE Spec2Model ----------------------------
(***************************************************************************)
(* nfdhcpd: the binding store, the binding-file watcher and the four       *)
(* NFQUEUE responders of src/nfdhcpd/__init__.py, as a state machine.      *)
(*                                                                         *)
(* Python's None is the string None for string-valued fields, 0 for an     *)
(* interface index and NoMtu for the integer mtu field.                    *)
(***************************************************************************)
EXTENDS Integers, Sequences, FiniteSets, TLC

VARIABLES
    mac_indexed_clients,   \* VMNetProxy.mac_indexed_clients
    dhcp_server_on_link,   \* VMNetProxy.dhcp_server_on_link
    files,                 \* the data directory: name of each file -> its content
    sysfs,                 \* /sys/class/net: interface name -> ifindex, 0 = absent
    events,                \* pyinotify events not yet processed
    clients,               \* VMNetProxy.clients
    started,               \* _serve has run build_config
    ra,                    \* the bindings the RA worker has still to visit
    last,                  \* what the last callback / worker step did
    fsops,                 \* file operations done by the environment so far
    ifops,                 \* interface operations done by the environment so far
    socket,                \* the sockets Client.socket of tap1's Client has named
    thr,                   \* each thread's position in Client.sendp
    loop,                  \* the position of _serve in its loop
    eui,                   \* a MAC, its link-local address and the MAC read back
    sockerr                \* socket()/bind raise socket.error whatever the tap

vars == <<mac_indexed_clients, dhcp_server_on_link, files, sysfs, events,
          clients, started, ra, last, fsops, ifops, socket, thr, loop, eui, sockerr>>

-----------------------------------------------------------------------------
(* Bounds of the model *)

MaxFsOps == 2
MaxIfOps == 2
MaxEvents == 1
MaxIfindex == 3
MaxSends == 2
MaxWakes == 2
MaxTime == 5

None == "None"
NoMtu == -1

Taps == {"tap1", "tap2"}
Ifaces == Taps \cup {"br0"}
MACs == {"m1", "m2"}
HostMac == "hostmac"

-----------------------------------------------------------------------------
(* Protocol constants *)

DHCPDISCOVER == 1
DHCPOFFER == 2
DHCPREQUEST == 3
DHCPDECLINE == 4
DHCPACK == 5
DHCPNAK == 6
DHCPRELEASE == 7
DHCPINFORM == 8

NF_DROP == "NF_DROP"
NF_ACCEPT == "NF_ACCEPT"

\* DHCP_REQRESP: the reply type of the request types that have one
DHCP_REQRESP(req_type) ==
    CASE req_type = DHCPDISCOVER -> DHCPOFFER
      [] req_type = DHCPREQUEST  -> DHCPACK
      [] req_type = DHCPINFORM   -> DHCPACK

-----------------------------------------------------------------------------
(* Binding files.  A file is the record of the text after KEY= on the line *)
(* of each key: NoLine for a key with no line, the empty string for a line *)
(* with an empty value.                                                    *)

NoLine == "NoLine"

BaseFile ==
    [mac |-> "m1", hostname |-> "vm1.example.org", ip |-> "10.0.0.7",
     indev |-> "br0", subnet |-> "10.0.0.0/24", gateway |-> "10.0.0.1",
     subnet6 |-> "2001:db8::/64", gateway6 |-> NoLine, macspoof |-> NoLine,
     mtu |-> NoLine, private |-> NoLine]

\* a complete dual-stack binding
FileFull == BaseFile
\* IPv4 only, no SUBNET and no GATEWAY line
FileV4Bare == [BaseFile EXCEPT !.subnet = NoLine, !.gateway = NoLine,
                               !.subnet6 = NoLine]
\* dual stack with MACSPOOF, for the other guest MAC, the upstream device
\* being tap1
FileSpoofSelf == [BaseFile EXCEPT !.mac = "m2", !.macspoof = "True", !.indev = "tap1"]
\* IPv6 only, for the other guest MAC
FileV6Only == [BaseFile EXCEPT !.mac = "m2", !.ip = NoLine, !.subnet = NoLine,
                               !.gateway = NoLine]
\* no MAC line: not a valid binding
FileNoMac == [BaseFile EXCEPT !.mac = NoLine]
\* no HOSTNAME line: not a valid binding
FileNoHostname == [BaseFile EXCEPT !.hostname = NoLine]

BindingFiles == {FileFull, FileV4Bare, FileSpoofSelf, FileV6Only,
                 FileNoMac, FileNoHostname}

StoreFiles == {FileFull, FileSpoofSelf, FileNoMac, FileNoHostname}

\* the keys of a binding file other than MTU
TextKeys == {"mac", "hostname", "ip", "indev", "subnet", "gateway", "subnet6",
             "gateway6", "macspoof", "private"}

\* MTU=1400, MTU=abc, and a line with an empty value for one key
FileMtu == [BaseFile EXCEPT !.mtu = "1400"]
FileMtu0 == [BaseFile EXCEPT !.mtu = "0"]
FilePrivate == [BaseFile EXCEPT !.private = "True"]
FileNoGateway == [BaseFile EXCEPT !.gateway = NoLine]
FileBadMtu == [BaseFile EXCEPT !.mtu = "abc"]
FileEmptyMtu == [BaseFile EXCEPT !.mtu = ""]
FileEmpty(k) == [BaseFile EXCEPT ![k] = ""]

ParseFiles == {FileFull, FileMtu, FileBadMtu, FileEmptyMtu}
              \cup {FileEmpty(k) : k \in TextKeys}

\* IPy.IP(net) raises ValueError on these
BadNets == {"bogus"}

\* get_value: the text after the =, None when it is empty
get_value(v) == IF v = "" THEN None ELSE v

\* int(v) where it returns
IntOf(v) ==
    CASE v = "1400" -> 1400
      [] v = "0" -> 0
      [] OTHER -> NoMtu

\* int(v) taken never to raise
IntRaises_never(v) == FALSE

\* int(v) raises: ValueError on text that is no integer, TypeError on None
IntRaises(v) == v \notin {"1400", "0"}

\* the value parse_binding_file leaves in the variable of key k
Field(f, k) == IF f[k] = NoLine THEN None ELSE get_value(f[k])

\* Client.open_socket: socket(), setsockopt and bind succeed when the tap
\* exists and the process can open a socket at all
open_socket(tap) == sysfs[tap] # 0 /\ ~sockerr

\* is_valid testing the MAC alone
is_valid_mac_only(b) == b.mac # None

\* Client.is_valid without its test of the mac
is_valid_hostname_only(b) == b.hostname # None

\* Client.is_valid
is_valid(b) == b.mac # None /\ b.hostname # None

\* parse_binding_file: status "raise" when an exception leaves the function,
\* "None" when it returns None, else "Client" with the Client it builds
parse_binding_file(tap) ==
    IF tap \notin DOMAIN files THEN [status |-> "None"]
    ELSE LET f == files[tap] IN
         IF f.mtu # NoLine /\ IntRaises(get_value(f.mtu)) THEN [status |-> "raise"]
         ELSE IF Field(f, "subnet") \in BadNets \/ Field(f, "subnet6") \in BadNets
         THEN [status |-> "None"]
         ELSE [status |-> "Client",
               client |->
                 [tap |-> tap, indev |-> Field(f, "indev"), mac |-> Field(f, "mac"),
                  ip |-> Field(f, "ip"), hostname |-> Field(f, "hostname"),
                  subnet |-> Field(f, "subnet"), gateway |-> Field(f, "gateway"),
                  subnet6 |-> Field(f, "subnet6"), gateway6 |-> Field(f, "gateway6"),
                  macspoof |-> Field(f, "macspoof"),
                  mtu |-> IF f.mtu = NoLine THEN NoMtu ELSE IntOf(get_value(f.mtu)),
                  private |-> Field(f, "private"), sock |-> open_socket(tap)]]

-----------------------------------------------------------------------------
(* The binding store.  A store is a function from the keys in use to the   *)
(* bindings; a key is an interface index or a guest MAC.                   *)

IfKey(i) == [mac |-> None, ifindex |-> i]
MacKey(m) == [mac |-> m, ifindex |-> 0]

EmptyStore == [k \in {} |-> None]

Without(cl, D) == [k \in (DOMAIN cl) \ D |-> cl[k]]
With(cl, key, b) == [k \in (DOMAIN cl) \cup {key} |-> IF k = key THEN b ELSE cl[k]]

\* remove_tap: the stores it can leave.  The loop closes the socket of each
\* client on the tap and deletes it; a client that never got a socket makes
\* cl.socket raise, which ends the loop (bare except) with the clients
\* visited before it deleted and the others kept.
remove_tap(cl, tap) ==
    LET M == {k \in DOMAIN cl : cl[k].tap = tap}
        bad == {k \in M : ~cl[k].sock}
    IN  IF bad = {} THEN {Without(cl, M)}
        ELSE {Without(cl, D) : D \in SUBSET (M \ bad)}

\* get_ifindex: the pairs <<ifindex or 0, store>> it can return
get_ifindex(cl, iface) ==
    IF sysfs[iface] = 0
    THEN {<<0, c>> : c \in remove_tap(cl, iface)}
    ELSE {<<sysfs[iface], cl>>}

\* the key add_tap installs a binding under
KeyOf(b, ifindex) == IF mac_indexed_clients THEN MacKey(b.mac) ELSE IfKey(ifindex)

\* add_tap: the stores it can leave
add_tap(cl, tap) ==
    LET parsed == parse_binding_file(tap) IN
    IF parsed.status # "Client" THEN {cl}
    ELSE LET binding == parsed.client IN
         { IF r[1] # 0 /\ is_valid(binding)
           THEN With(r[2], KeyOf(binding, r[1]), binding)
           ELSE r[2]
         : r \in get_ifindex(cl, binding.tap) }

\* glob.glob(data_path/*)
glob == DOMAIN files

\* add_tap over a set of paths, in any order
RECURSIVE scan(_, _)
scan(cl, paths) ==
    IF paths = {} THEN {cl}
    ELSE UNION { UNION { scan(c, paths \ {t}) : c \in add_tap(cl, t) } : t \in paths }

\* build_config: clear, then add every file of the data directory
build_config == scan(EmptyStore, glob)

\* ClientFileHandler: the stores an event can leave
process_IN_DELETE(cl, name) == remove_tap(cl, name)
process_IN_CLOSE_WRITE(cl, name) == add_tap(cl, name)
process_IN_Q_OVERFLOW(cl) == scan(cl, glob)

\* get_iface_hw_addr: what it can do.  raised: os.path.join fails on a None
\* interface name; addr None with the store remove_tap leaves when the
\* interface is gone; else the interface's address
get_iface_hw_addr(cl, iface) ==
    IF iface = None THEN {[addr |-> None, clients |-> cl, raised |-> TRUE]}
    ELSE IF sysfs[iface] = 0
    THEN {[addr |-> None, clients |-> c, raised |-> FALSE] : c \in remove_tap(cl, iface)}
    ELSE {[addr |-> HostMac, clients |-> cl, raised |-> FALSE]}

\* get_binding: the key looked up
LookupKey(ifindex, mac) == IF mac_indexed_clients THEN MacKey(mac) ELSE IfKey(ifindex)

\* get_binding: the binding found, as a sequence of length 0 (None) or 1
get_binding(cl, ifindex, mac) ==
    IF LookupKey(ifindex, mac) \in DOMAIN cl
    THEN <<cl[LookupKey(ifindex, mac)]>>
    ELSE <<>>

-----------------------------------------------------------------------------
(* Packets and what a callback did with one.                               *)
(*   indev          the input interface index get_indev returns            *)
(*   mac            BOOTP chaddr / ipv62mac(src) / NS lladdr; None when    *)
(*                  the packet yields none                                 *)
(*   bootp, dhcp    the packet has a BOOTP layer, a DHCP layer             *)
(*   req_type       the message-type option, 0 when there is none          *)
(*   requested_addr the requested_addr option, None when there is none     *)
(*   tgt            the NS target                                          *)
(*   inforeq        the DHCPv6 packet is an Information-Request with a     *)
(*                  client id                                              *)

Ifindexes == 1..MaxIfindex

TgtInSubnet == "2001:db8::5"
TgtIfll == "fe80::ifll"
TgtOther == "2001:db9::1"

\* the yiaddr of a BOOTP layer that sets none
ZeroAddr == "0.0.0.0"

NoPkt == [indev |-> 0, mac |-> None, bootp |-> FALSE, dhcp |-> FALSE, req_type |-> 0,
          requested_addr |-> None, tgt |-> None, inforeq |-> FALSE,
          yiaddr |-> ZeroAddr]

ReqTypes == {0, DHCPDISCOVER, DHCPREQUEST, DHCPDECLINE, DHCPRELEASE, DHCPINFORM}

DhcpPackets ==
    {[NoPkt EXCEPT !.indev = i] : i \in Ifindexes}
    \cup {[NoPkt EXCEPT !.indev = i, !.bootp = TRUE, !.mac = m]
            : i \in Ifindexes, m \in MACs}
    \cup {[NoPkt EXCEPT !.indev = i, !.bootp = TRUE, !.mac = m, !.dhcp = TRUE,
                        !.req_type = t]
            : i \in Ifindexes, m \in MACs, t \in ReqTypes}
    \cup {[NoPkt EXCEPT !.indev = i, !.bootp = TRUE, !.mac = m, !.dhcp = TRUE,
                        !.req_type = DHCPREQUEST, !.requested_addr = a]
            : i \in Ifindexes, m \in MACs, a \in {"10.0.0.7", "10.0.0.8"}}

RsPackets == {[NoPkt EXCEPT !.indev = i, !.mac = m] : i \in Ifindexes, m \in MACs \cup {None}}

NsPackets == {[NoPkt EXCEPT !.indev = i, !.mac = m, !.tgt = t]
                : i \in Ifindexes, m \in MACs \cup {None},
                  t \in {TgtInSubnet, TgtIfll, TgtOther}}

\* DHCP requests whose BOOTP layer carries a yiaddr of the client's choice
DhcpInputs ==
    {[NoPkt EXCEPT !.indev = 1, !.bootp = TRUE, !.mac = "m1", !.dhcp = TRUE,
                   !.req_type = t, !.requested_addr = a, !.yiaddr = y]
       : t \in ReqTypes, a \in {None, "10.0.0.7", "10.0.0.8"},
         y \in {ZeroAddr, "10.9.9.9"}}

Dhcpv6Packets == {[NoPkt EXCEPT !.indev = i, !.inforeq = r] : i \in Ifindexes, r \in BOOLEAN}

\* the outcome of a callback: the store it leaves, whether get_binding ran
\* and what it found, the verdicts set, the frames sent, whether an
\* exception left the callback, and the place the callback ended at
Out(cl, lookup, found, verdicts, frames, raised, stage) ==
    [clients |-> cl, lookup |-> lookup, binding |-> found, verdicts |-> verdicts,
     frames |-> frames, raised |-> raised, stage |-> stage]

Frame(proto, type, binding, src) ==
    [proto |-> proto, type |-> type, tap |-> binding.tap, src |-> src,
     yiaddr |-> None, opts |-> {}, O |-> 0]

\* the Router Advertisement of rs_response and _send_periodic_ra, O its
\* Other Configuration flag
RaFrame(binding, src, O) == [Frame("ra", 0, binding, src) EXCEPT !.O = O]

\* Client.sendp as the callbacks use it: the results it can have.  "sent"
\* when the frame left; "failed" when the send raised, which it does on a
\* socket the callback's own remove_tap closed and on a binding without a
\* socket, and which it can do on any socket
sendp(cl, key, binding) ==
    IF binding.sock /\ key \in DOMAIN cl THEN {"sent", "failed"} ELSE {"failed"}

\* the ends of a callback that got as far as binding.sendp(resp): the
\* exceptions of sendp are caught and logged by the callback
Reply(cl, found, key, frame) ==
    { IF r = "sent"
      THEN Out(cl, "found", found, <<NF_DROP>>, <<frame>>, FALSE, "sent")
      ELSE Out(cl, "found", found, <<NF_DROP>>, <<>>, FALSE, "sendfailed")
    : r \in sendp(cl, key, found[1]) }

\* the early returns leaving the packet without a verdict
Dropped_no_verdict(cl, found, stage) ==
    Out(cl, "found", found, <<>>, <<>>, FALSE, stage)

\* a callback that ends after its NF_DROP verdict without sending
Dropped(cl, found, stage) == Out(cl, "found", found, <<NF_DROP>>, <<>>, FALSE, stage)

\* a callback an exception leaves after its NF_DROP verdict
Raised(cl, found) == Out(cl, "found", found, <<NF_DROP>>, <<>>, TRUE, "raised")

\* the binding-not-found end dropping the packet
Accepted_drops(cl) == Out(cl, "none", <<>>, <<NF_DROP>>, <<>>, FALSE, "accept")

\* the binding-not-found end of every callback
Accepted(cl) == Out(cl, "none", <<>>, <<NF_ACCEPT>>, <<>>, FALSE, "accept")

\* the anti-spoofing test without its macspoof clause
spoofed_ignoring_macspoof(mac, binding) == mac # binding.mac

\* the anti-spoofing test of dhcp_response, rs_response and ns_response
spoofed(mac, binding) == mac # binding.mac /\ binding.macspoof = None

\* the ip test left out
no_ip_unchecked(binding) == FALSE

\* dhcp_response: not binding.ip
no_ip(binding) == binding.ip = None

\* the subnet6 test left out
no_subnet6_unchecked(binding) == FALSE

\* the IPv6 callbacks and the RA walk: binding.net6.net is None
no_subnet6(binding) == binding.subnet6 = None

\* get_addr_on_link for AF_INET: the gateway, else the subnet's address 1,
\* else None
get_addr_on_link(binding) ==
    IF binding.gateway # None THEN binding.gateway
    ELSE IF binding.subnet # None THEN "subnet[1]"
    ELSE None

\* the reply type dhcp_response chooses: 0 when it returns without a reply
\* (DHCPRELEASE), -1 when resp_type is left unbound (NameError)
resp_type_of(req_type, requested_addr, binding) ==
    IF req_type = DHCPREQUEST /\ requested_addr # binding.ip THEN DHCPNAK
    ELSE IF req_type \in {DHCPDISCOVER, DHCPREQUEST} THEN DHCP_REQRESP(req_type)
    ELSE IF req_type = DHCPINFORM THEN DHCP_REQRESP(req_type)
    ELSE IF req_type = DHCPRELEASE THEN 0
    ELSE -1

\* self.dhcp_nameservers as main passes it: one name server
dhcp_nameservers == {"ns1"}

\* `if binding.mtu:`, false for None and for 0
mtu_is_true(binding) == binding.mtu # NoMtu /\ binding.mtu # 0

\* the names of the options dhcp_response puts in a reply of type resp_type
\* to a request of type req_type
dhcp_options(req_type, resp_type, binding) ==
    (IF resp_type = DHCPNAK THEN {}
     ELSE IF req_type \in {DHCPDISCOVER, DHCPREQUEST}
     THEN {"hostname", "domain", "broadcast_address", "subnet_mask",
           "renewal_time", "lease_time"}
          \cup (IF binding.gateway # None /\ binding.private = None
                THEN {"router"} ELSE {})
          \cup (IF mtu_is_true(binding) THEN {"interface_mtu"} ELSE {})
          \cup (IF dhcp_nameservers # {} THEN {"name_server"} ELSE {})
     ELSE IF req_type = DHCPINFORM
     THEN {"hostname", "domain"}
          \cup (IF dhcp_nameservers # {} THEN {"name_server"} ELSE {})
     ELSE {})
    \cup {"message-type", "server_id"}

\* the yiaddr of the reply: resp is a copy of the BOOTP layer of the
\* request, and yiaddr is assigned in the DISCOVER/REQUEST branch alone
dhcp_yiaddr(pkt, resp_type, binding) ==
    IF resp_type # DHCPNAK /\ pkt.req_type \in {DHCPDISCOVER, DHCPREQUEST}
    THEN binding.ip
    ELSE pkt.yiaddr

\* the reply dhcp_response builds
DhcpFrame(pkt, resp_type, binding, src) ==
    [Frame("dhcp", resp_type, binding, src)
       EXCEPT !.yiaddr = dhcp_yiaddr(pkt, resp_type, binding),
              !.opts = dhcp_options(pkt.req_type, resp_type, binding)]

\* dhcp_response: its possible outcomes on a packet of the DHCPv4 queue
dhcp_response(cl, pkt) ==
    IF ~pkt.bootp
    THEN \* getlayer(BOOTP) is None: resp stays unbound, resp.hlen raises
         {Out(cl, "notdone", <<>>, <<>>, <<>>, TRUE, "raised")}
    ELSE
    LET found == get_binding(cl, pkt.indev, pkt.mac)
        key == LookupKey(pkt.indev, pkt.mac)
    IN
    IF found = <<>> THEN {Accepted(cl)}
    ELSE
    LET binding == found[1] IN
    IF spoofed(pkt.mac, binding) THEN {Dropped(cl, found, "spoof")}
    ELSE IF no_ip(binding) THEN {Dropped(cl, found, "noip")}
    ELSE IF dhcp_server_on_link /\ get_addr_on_link(binding) = None
    THEN {Dropped(cl, found, "nosrvip")}
    ELSE IF ~pkt.dhcp THEN {Dropped(cl, found, "nodhcp")}
    ELSE
    UNION {
      IF hw.raised THEN {Raised(hw.clients, found)}
      ELSE IF pkt.req_type = 0 THEN {Raised(hw.clients, found)}
      ELSE
      LET requested_addr == IF pkt.requested_addr = None THEN binding.ip
                            ELSE pkt.requested_addr
          resp_type == resp_type_of(pkt.req_type, requested_addr, binding)
      IN
      IF resp_type = -1 THEN {Raised(hw.clients, found)}
      ELSE IF resp_type = 0 THEN {Dropped(hw.clients, found, "release")}
      ELSE IF resp_type # DHCPNAK /\ pkt.req_type # DHCPINFORM /\ binding.subnet = None
      THEN \* subnet.broadcast on a Subnet whose net is None
           {Raised(hw.clients, found)}
      ELSE Reply(hw.clients, found, key,
                 DhcpFrame(pkt, resp_type, binding, hw.addr))
    : hw \in get_iface_hw_addr(cl, binding.indev) }

\* the module defines no global named config (main's config is a local of
\* main), so reading it in rs_response raises NameError
config_is_bound == FALSE

\* enable_dhcpv6 of the configuration: the DHCPv6 queue is set up
enable_dhcpv6 == TRUE

\* the part shared by the IPv6 callbacks once the binding is found and the
\* spoof test passed: the subnet6 test, then the indev address.  Each result
\* is the outcome the callback ends with (out, of length 1) or, when out is
\* empty, the hw the callback goes on with
V6Tail(cl, found) ==
    LET binding == found[1] IN
    IF no_subnet6(binding)
    THEN {[hw |-> [addr |-> None, clients |-> cl, raised |-> FALSE],
           out |-> <<Dropped(cl, found, "nosubnet6")>>]}
    ELSE { [hw |-> hw,
            out |-> IF hw.raised THEN <<Raised(hw.clients, found)>>
                    ELSE IF hw.addr = None
                    THEN <<Dropped(hw.clients, found, "noindevmac")>>
                    ELSE <<>>]
         : hw \in get_iface_hw_addr(cl, binding.indev) }

\* rs_response: its possible outcomes on a packet of the RS queue
rs_response(cl, pkt) ==
    IF pkt.mac = None
    THEN \* ipv62mac raised: return before any verdict
         {Out(cl, "notdone", <<>>, <<>>, <<>>, FALSE, "nomac")}
    ELSE
    LET found == get_binding(cl, pkt.indev, pkt.mac)
        key == LookupKey(pkt.indev, pkt.mac)
    IN
    IF found = <<>> THEN {Accepted(cl)}
    ELSE IF spoofed(pkt.mac, found[1]) THEN {Dropped(cl, found, "spoof")}
    ELSE
    UNION { IF t.out # <<>> THEN {t.out[1]}
            ELSE IF ~config_is_bound THEN {Raised(t.hw.clients, found)}
            ELSE Reply(t.hw.clients, found, key,
                       RaFrame(found[1], t.hw.addr,
                               IF enable_dhcpv6 THEN 1 ELSE 0))
          : t \in V6Tail(cl, found) }

\* the target test of ns_response accepting targets of the subnet alone
ns_target_ok_subnet_only(tgt) == tgt = TgtInSubnet

\* the target test of ns_response: subnet.net.overlaps(ns.tgt) or
\* str(ns.tgt) == str(ifll)
ns_target_ok(tgt) == tgt \in {TgtInSubnet, TgtIfll}

\* ns_response: its possible outcomes on a packet of the NS queue
ns_response(cl, pkt) ==
    IF pkt.mac = None
    THEN \* no lladdr field in the packet: return before any verdict
         {Out(cl, "notdone", <<>>, <<>>, <<>>, FALSE, "nomac")}
    ELSE
    LET found == get_binding(cl, pkt.indev, pkt.mac)
        key == LookupKey(pkt.indev, pkt.mac)
    IN
    IF found = <<>> THEN {Accepted(cl)}
    ELSE IF spoofed(pkt.mac, found[1]) THEN {Dropped(cl, found, "spoof")}
    ELSE
    UNION { IF t.out # <<>> THEN {t.out[1]}
            ELSE IF ~ns_target_ok(pkt.tgt)
            THEN {Dropped(t.hw.clients, found, "nontarget")}
            ELSE Reply(t.hw.clients, found, key, Frame("na", 0, found[1], t.hw.addr))
          : t \in V6Tail(cl, found) }

\* dhcpv6_response: its possible outcomes on a packet of the DHCPv6 queue;
\* the lookup is made with mac = None
dhcpv6_response(cl, pkt) ==
    LET found == get_binding(cl, pkt.indev, None)
        key == LookupKey(pkt.indev, None)
    IN
    IF found = <<>> THEN {Accepted(cl)}
    ELSE
    UNION { IF t.out # <<>> THEN {t.out[1]}
            ELSE IF ~pkt.inforeq
            THEN \* pkt[DHCP6_InfoRequest] / pkt[DHCP6OptClientId] raise
                 {Raised(t.hw.clients, found)}
            ELSE Reply(t.hw.clients, found, key,
                       Frame("dhcpv6", 0, found[1], t.hw.addr))
          : t \in V6Tail(cl, found) }

\* one iteration of the loop of _send_periodic_ra on a binding of the
\* snapshot: stage "abort" is the return that ends the whole walk
ra_iteration(cl, binding) ==
    IF no_subnet6(binding)
    THEN {Out(cl, "found", <<binding>>, <<>>, <<>>, FALSE, "nosubnet6")}
    ELSE UNION {
           IF hw.raised
           THEN {Out(hw.clients, "found", <<binding>>, <<>>, <<>>, TRUE, "raised")}
           ELSE IF hw.addr = None
           THEN {Out(hw.clients, "found", <<binding>>, <<>>, <<>>, FALSE, "abort")}
           ELSE {Out(hw.clients, "found", <<binding>>, <<>>, <<>>, FALSE, "sendfailed")}
                \cup IF binding.sock
                     THEN {Out(hw.clients, "found", <<binding>>, <<>>,
                               <<RaFrame(binding, hw.addr, 1)>>, FALSE, "sent")}
                     ELSE {}
         : hw \in get_iface_hw_addr(cl, binding.indev) }

\* the four NFQUEUE queues, named after their callbacks
Queues == {"dhcp", "rs", "ns", "dhcpv6"}

\* the outcomes the callback of queue q can have on store cl and packet pkt
ResponseOf(q, cl, pkt) ==
    CASE q = "dhcp" -> dhcp_response(cl, pkt)
      [] q = "rs" -> rs_response(cl, pkt)
      [] q = "ns" -> ns_response(cl, pkt)
      [] q = "dhcpv6" -> dhcpv6_response(cl, pkt)

-----------------------------------------------------------------------------
(* The state machine *)

Idle == [q |-> "none", pkt |-> NoPkt, pre |-> EmptyStore, lookup |-> "notdone",
         binding |-> <<>>, verdicts |-> <<>>, frames |-> <<>>, raised |-> FALSE,
         stage |-> "idle"]

\* what a callback of queue q leaves in last; pre is the store it started on
Done(q, pkt, out) ==
    [q |-> q, pkt |-> pkt, pre |-> clients, lookup |-> out.lookup,
     binding |-> out.binding, verdicts |-> out.verdicts, frames |-> out.frames,
     raised |-> out.raised, stage |-> out.stage]

IN_DELETE(name) == [type |-> "IN_DELETE", name |-> name]
IN_CLOSE_WRITE(name) == [type |-> "IN_CLOSE_WRITE", name |-> name]
IN_Q_OVERFLOW == [type |-> "IN_Q_OVERFLOW", name |-> None]

\* the kernel queues an event; on a full queue it queues one overflow
\* event instead and drops what follows
Emit(evs, e) ==
    IF Len(evs) < MaxEvents THEN Append(evs, e)
    ELSE IF evs[Len(evs)] = IN_Q_OVERFLOW THEN evs
    ELSE Append(evs, IN_Q_OVERFLOW)

\* the main thread and the RA worker
Threads == {"main", "worker"}

\* the sockets of one Client: attr is the socket self.socket names (0 when
\* the attribute was never set), open the sockets that are open, closed the
\* pairs <<socket, thread that closed it>>
NoSocket == [attr |-> 0, open |-> {}, closed |-> {}]

\* the socket a successful open_socket makes
NewSocket(sk) == Cardinality(sk.open) + Cardinality(sk.closed) + 1

\* Client.open_socket on the Client of tap1: self.socket is set only when
\* the bind succeeds
Client_open_socket(sk) ==
    IF open_socket("tap1")
    THEN [sk EXCEPT !.attr = NewSocket(sk), !.open = @ \cup {NewSocket(sk)}]
    ELSE sk

\* self.socket.close() by thread t: closing a closed socket changes nothing
Client_close(sk, t) ==
    IF sk.attr \in sk.open
    THEN [sk EXCEPT !.open = @ \ {sk.attr}, !.closed = @ \cup {<<sk.attr, t>>}]
    ELSE sk

\* sendp's except branch without its open_socket call
sendp_reopen_skipped(sk) == sk

\* sendp's except branch: self.open_socket()
sendp_reopen(sk) == Client_open_socket(sk)

\* Text is a sequence of one-character strings, an address in text a
\* sequence of groups, which is what split(":") makes of it and what
\* ":".join makes it from.

\* the digits "%x" prints
LowerHex == <<"0", "1", "2", "3", "4", "5", "6", "7", "8", "9",
              "a", "b", "c", "d", "e", "f">>

\* int(c, 16) of one digit, in either case
HexVal(c) ==
    CASE c \in {"a", "A"} -> 10 [] c \in {"b", "B"} -> 11
      [] c \in {"c", "C"} -> 12 [] c \in {"d", "D"} -> 13
      [] c \in {"e", "E"} -> 14 [] c \in {"f", "F"} -> 15
      [] OTHER -> (CHOOSE i \in 0..9 : LowerHex[i + 1] = c)

\* int(s, 16)
RECURSIVE int16(_)
int16(s) ==
    IF s = <<>> THEN 0
    ELSE 16 * int16(SubSeq(s, 1, Len(s) - 1)) + HexVal(s[Len(s)])

\* "%02x" % n, for n below 256
fmt02x(n) == <<LowerHex[(n \div 16) + 1], LowerHex[(n % 16) + 1]>>

\* "%x" % n
RECURSIVE fmtx(_)
fmtx(n) ==
    IF n < 16 THEN <<LowerHex[n + 1]>>
    ELSE fmtx(n \div 16) \o <<LowerHex[(n % 16) + 1]>>

\* n ^ 0x02, for n below 256
xor2(n) == IF (n \div 2) % 2 = 1 THEN n - 2 ELSE n + 2

\* IPy.IP("fe80::").net().strFullsize().split(":")[:4]
LLPrefix == << <<"f", "e", "8", "0">>, <<"0", "0", "0", "0">>,
               <<"0", "0", "0", "0">>, <<"0", "0", "0", "0">> >>

\* Subnet._make_eui64 on the first four groups of net and a MAC given as
\* its six octets: the eight hextets of the IPy.IP it returns
make_eui64(prefix, mac) ==
    LET comp == SubSeq(mac, 1, 3) \o << <<"f", "f">>, <<"f", "e">> >>
                \o SubSeq(mac, 4, 6)
        eui64 == [comp EXCEPT ![1] = fmt02x(xor2(int16(comp[1])))]
        groups == prefix \o [l \in 1..4 |-> eui64[2 * l - 1] \o eui64[2 * l]]
    IN  [i \in 1..8 |-> int16(groups[i])]

\* Subnet.make_ll64
make_ll64(mac) == make_eui64(LLPrefix, mac)

\* the number of zeros a list of hextets starts with
RECURSIVE countFollowingZeros(_)
countFollowingZeros(l) ==
    IF l = <<>> \/ l[1] # 0 THEN 0 ELSE 1 + countFollowingZeros(Tail(l))

\* str() of an IPv6 IPy.IP of one address, from its hextets: the first of
\* the longest runs of two or more zero hextets is cut out and an empty
\* group left in its place (two when the run is at an end of the address)
strCompressed(hextets) ==
    LET n == Len(hextets)
        followingzeros == [i \in 1..n |-> countFollowingZeros(SubSeq(hextets, i, n))]
        most == CHOOSE z \in {followingzeros[i] : i \in 1..n} :
                    \A i \in 1..n : followingzeros[i] <= z
        pos == CHOOSE i \in 1..n : /\ followingzeros[i] = most
                                   /\ \A j \in 1..(i - 1) : followingzeros[j] # most
        normal == [i \in 1..n |-> fmtx(hextets[i])]
        cut == SubSeq(normal, 1, pos - 1) \o << <<>> >>
               \o SubSeq(normal, pos + most, n)
        ended == IF pos >= Len(cut) THEN cut \o << <<>> >> ELSE cut
    IN  IF most > 1
        THEN IF pos = 1 THEN << <<>> >> \o ended ELSE ended
        ELSE normal

\* the padding loop of ipv62mac putting its "0" behind the group
zfill4_right(part) == part \o SubSeq(<<"0", "0", "0", "0">>, 1, 4 - Len(part))

\* the padding loop of ipv62mac: "0" in front until the group has 4 digits
RECURSIVE zfill4(_)
zfill4(part) == IF Len(part) < 4 THEN zfill4(<<"0">> \o part) ELSE part

\* ipv62mac on an address without "/": the six octets it joins
ipv62mac(ipv6Parts) ==
    LET n == Len(ipv6Parts)
        tail4 == SubSeq(ipv6Parts, IF n > 4 THEN n - 3 ELSE 1, n)
        padded == [i \in 1..Len(tail4) |-> zfill4(tail4[i])]
        macParts == [i \in 1..(2 * Len(padded)) |->
                       IF i % 2 = 1
                       THEN SubSeq(padded[(i + 1) \div 2], 1, 2)
                       ELSE SubSeq(padded[i \div 2],
                                   Len(padded[i \div 2]) - 1,
                                   Len(padded[i \div 2]))]
        first == fmt02x(xor2(int16(macParts[1])))
    IN  <<first>> \o SubSeq(macParts, 2, 3) \o SubSeq(macParts, 6, Len(macParts))

\* the octets the MACs of the round trip are made of
Octets == { <<"0", "0">>, <<"0", "2">>, <<"f", "f">>, <<"A", "b">> }

\* no MAC taken yet
NoEui == [pc |-> "none", mac |-> <<>>, ll |-> <<>>, back |-> <<>>]

\* a thread outside sendp: snap is the worker holding the Client in the
\* snapshot of its walk, res the way its last sendp ended
ThrIdle == [pc |-> "idle", ref |-> 0, sends |-> 0, snap |-> FALSE, res |-> "none"]

\* self.ra_period, in ticks of the clock
ra_period == 2

\* timeout = None: select waits until an fd is ready
NoTimeout == -1

\* the fds of the queues __init__ set up
QueueFds == {"dhcp", "rs"}

\* _serve before build_config: ipv6 is self.ipv6_enabled, now the clock
\* time.time() reads, start and timeout the locals of _serve, ras the
\* number of send_periodic_ra calls made, retry whether the next select is
\* the retry of an interrupted one, qopen the queue handles of self.nfq
\* that are open, watching whether the notifier runs, ready the fds the
\* select of this iteration returned, applied the events this iteration
\* handled and walks the threads send_periodic_ra started that still run
LoopStart == [pc |-> "select", bound |-> FALSE, fresh |-> FALSE, rlist |-> {},
              todo |-> {}, drained |-> {}, wakes |-> 0,
              ipv6 |-> TRUE, now |-> 0, start |-> 0, timeout |-> NoTimeout,
              ras |-> 0, retry |-> FALSE, qopen |-> QueueFds,
              watching |-> TRUE, ready |-> {}, applied |-> <<>>,
              walks |-> 0]

\* the state VMNetProxy.__init__ leaves, the data directory holding any
\* files of F and server_on_link being any value of L
InitFrom(F, L) ==
    /\ mac_indexed_clients \in BOOLEAN
    /\ dhcp_server_on_link \in L
    /\ files \in UNION {[S -> F] : S \in SUBSET Taps}
    /\ sysfs = [i \in Ifaces |-> CASE i = "tap1" -> 1 [] i = "tap2" -> 2
                                       [] OTHER -> MaxIfindex + 1]
    /\ events = <<>>
    /\ clients = EmptyStore
    /\ started = FALSE
    /\ ra = <<>>
    /\ last = Idle
    /\ fsops = 0
    /\ ifops = 0
    /\ socket = NoSocket
    /\ thr = [t \in Threads |-> ThrIdle]
    /\ loop = LoopStart
    /\ eui = NoEui
    /\ sockerr = FALSE

Init == InitFrom(BindingFiles, BOOLEAN)

\* the environment writes and closes a binding file
WriteFile(t, f) ==
    /\ fsops < MaxFsOps
    /\ files' = [x \in (DOMAIN files) \cup {t} |-> IF x = t THEN f ELSE files[x]]
    /\ events' = Emit(events, IN_CLOSE_WRITE(t))
    /\ fsops' = fsops + 1
    /\ last' = Idle
    /\ UNCHANGED <<sockerr, socket, thr, loop, eui, mac_indexed_clients, dhcp_server_on_link, sysfs, clients, started,
                   ra, ifops>>

\* the environment deletes a binding file
DeleteFile(t) ==
    /\ fsops < MaxFsOps
    /\ t \in DOMAIN files
    /\ files' = [x \in (DOMAIN files) \ {t} |-> files[x]]
    /\ events' = Emit(events, IN_DELETE(t))
    /\ fsops' = fsops + 1
    /\ last' = Idle
    /\ UNCHANGED <<sockerr, socket, thr, loop, eui, mac_indexed_clients, dhcp_server_on_link, sysfs, clients, started,
                   ra, ifops>>

\* an interface disappears
IfaceDown(i) ==
    /\ ifops < MaxIfOps
    /\ sysfs[i] # 0
    /\ sysfs' = [sysfs EXCEPT ![i] = 0]
    /\ ifops' = ifops + 1
    /\ last' = Idle
    /\ UNCHANGED <<sockerr, socket, thr, loop, eui, mac_indexed_clients, dhcp_server_on_link, files, events, clients,
                   started, ra, fsops>>

\* an interface is created again, under an index no interface has
IfaceUp(i, n) ==
    /\ ifops < MaxIfOps
    /\ sysfs[i] = 0
    /\ \A j \in Ifaces : sysfs[j] # n
    /\ sysfs' = [sysfs EXCEPT ![i] = n]
    /\ ifops' = ifops + 1
    /\ last' = Idle
    /\ UNCHANGED <<sockerr, socket, thr, loop, eui, mac_indexed_clients, dhcp_server_on_link, files, events, clients,
                   started, ra, fsops>>

\* _serve between build_config and its loop: start = time.time(), and with
\* ipv6_enabled timeout = ra_period and send_periodic_ra(), else
\* timeout = None
serve_prologue(lp) ==
    IF lp.ipv6
    THEN [lp EXCEPT !.start = lp.now, !.timeout = ra_period, !.ras = @ + 1,
                    !.walks = @ + 1]
    ELSE [lp EXCEPT !.start = lp.now, !.timeout = NoTimeout]

\* _serve, up to its loop: build_config, then the prologue
Serve ==
    /\ ~started
    /\ clients' \in build_config
    /\ started' = TRUE
    /\ last' = Idle
    /\ loop' = serve_prologue(loop)
    /\ UNCHANGED <<sockerr, socket, thr, eui, mac_indexed_clients, dhcp_server_on_link, files, sysfs, events, ra,
                   fsops, ifops>>

\* ClientFileHandler on one event
process_event(cl, e) ==
    CASE e.type = "IN_DELETE" -> process_IN_DELETE(cl, e.name)
      [] e.type = "IN_CLOSE_WRITE" -> process_IN_CLOSE_WRITE(cl, e.name)
      [] e.type = "IN_Q_OVERFLOW" -> process_IN_Q_OVERFLOW(cl)

\* notifier.process_events: every pending event, in order
RECURSIVE process_events(_, _)
process_events(cl, evs) ==
    IF evs = <<>> THEN {cl}
    ELSE UNION { process_events(c, Tail(evs)) : c \in process_event(cl, Head(evs)) }

\* _serve with the watcher fd ready: read_events and process_events
WatcherReady ==
    /\ started
    /\ events # <<>>
    /\ clients' \in process_events(clients, events)
    /\ events' = <<>>
    /\ last' = Idle
    /\ UNCHANGED <<sockerr, socket, thr, loop, eui, mac_indexed_clients, dhcp_server_on_link, files, sysfs, started, ra,
                   fsops, ifops>>

\* a callback run by process_pending on one packet of its queue
Callback(q, pkt, outs) ==
    /\ started
    /\ last = Idle
    /\ \E out \in outs :
         /\ clients' = out.clients
         /\ last' = Done(q, pkt, out)
    /\ UNCHANGED <<sockerr, socket, thr, loop, eui, mac_indexed_clients, dhcp_server_on_link, files, sysfs, events,
                   started, ra, fsops, ifops>>

DhcpQueue == \E pkt \in DhcpPackets : Callback("dhcp", pkt, dhcp_response(clients, pkt))
RsQueue == \E pkt \in RsPackets : Callback("rs", pkt, rs_response(clients, pkt))
NsQueue == \E pkt \in NsPackets : Callback("ns", pkt, ns_response(clients, pkt))
Dhcpv6Queue == \E pkt \in Dhcpv6Packets :
                   Callback("dhcpv6", pkt, dhcpv6_response(clients, pkt))

\* the callback (or the worker's iteration) has returned: its record is dropped
Returned ==
    /\ last # Idle
    /\ last' = Idle
    /\ UNCHANGED <<sockerr, socket, thr, loop, eui, mac_indexed_clients, dhcp_server_on_link, files, sysfs, events,
                   clients, started, ra, fsops, ifops>>

\* the sequences that list each element of S once
RECURSIVE Orders(_)
Orders(S) ==
    IF S = {} THEN {<<>>}
    ELSE UNION { {<<x>> \o o : o \in Orders(S \ {x})} : x \in S }

\* send_periodic_ra: a worker starts on clients.values(), the bindings as
\* they are now, in the dictionary's order (one walk at a time is modelled)
StartRA ==
    /\ started
    /\ ra = <<>>
    /\ DOMAIN clients # {}
    /\ \E o \in Orders(DOMAIN clients) : ra' = [n \in 1..Len(o) |-> clients[o[n]]]
    /\ last' = Idle
    /\ UNCHANGED <<sockerr, socket, thr, loop, eui, mac_indexed_clients, dhcp_server_on_link, files, sysfs, events,
                   clients, started, fsops, ifops>>

\* the worker's loop body on the next binding of its snapshot
StepRA ==
    /\ ra # <<>>
    /\ last = Idle
    /\ \E out \in ra_iteration(clients, Head(ra)) :
         /\ clients' = out.clients
         /\ last' = Done("ra", NoPkt, out)
         /\ ra' = IF out.stage \in {"abort", "raised"} THEN <<>> ELSE Tail(ra)
    /\ UNCHANGED <<sockerr, socket, thr, loop, eui, mac_indexed_clients, dhcp_server_on_link, files, sysfs, events,
                   started, fsops, ifops>>

\* the daemon serving packets and running the RA worker
Next ==
    \/ \E i \in Ifaces : IfaceDown(i)
    \/ Serve
    \/ DhcpQueue
    \/ RsQueue
    \/ NsQueue
    \/ Dhcpv6Queue
    \/ StartRA
    \/ StepRA
    \/ Returned

Spec == Init /\ [][Next]_vars

\* the daemon tracking the data directory; the files written are those that
\* differ in what the store reads of a binding (its tap, mac and validity)
NextStore ==
    \/ \E t \in Taps, f \in StoreFiles : WriteFile(t, f)
    \/ \E t \in Taps : DeleteFile(t)
    \/ \E i \in Ifaces : IfaceDown(i)
    \/ \E i \in Ifaces, n \in Ifindexes : IfaceUp(i, n)
    \/ Serve
    \/ WatcherReady

SpecStore == InitFrom(StoreFiles, {FALSE}) /\ [][NextStore]_vars

\* the daemon tracking the file of one tap through its rewrites
InitParse == InitFrom(ParseFiles, {FALSE}) /\ DOMAIN files \subseteq {"tap1"}

NextParse ==
    \/ \E f \in ParseFiles : WriteFile("tap1", f)
    \/ Serve
    \/ WatcherReady

SpecParse == InitParse /\ [][NextParse]_vars

\* the binding files the options of a DHCP reply depend on
DhcpFiles == {FileFull, FileMtu, FileMtu0, FilePrivate, FileNoGateway}

\* the DHCP callback on requests of every type, tap1 holding any of these
InitDhcp == InitFrom(DhcpFiles, {FALSE}) /\ DOMAIN files \subseteq {"tap1"}

DhcpInput == \E pkt \in DhcpInputs : Callback("dhcp", pkt, dhcp_response(clients, pkt))

NextDhcp ==
    \/ Serve
    \/ DhcpInput
    \/ Returned

SpecDhcp == InitDhcp /\ [][NextDhcp]_vars

\* the Client of tap1 is in the store
Tap1Installed == \E k \in DOMAIN clients : clients[k].tap = "tap1"

\* _serve, up to its loop, on a data directory holding tap1's file: the
\* Client made by parse_binding_file opens its socket
ServeSock ==
    /\ ~started
    /\ clients' \in build_config
    /\ started' = TRUE
    /\ socket' = Client_open_socket(socket)
    /\ UNCHANGED <<sockerr, eui, mac_indexed_clients, dhcp_server_on_link, files, sysfs, events, ra,
                   last, fsops, ifops, thr, loop>>

\* the worker starts a walk: clients.values() holds tap1's Client
SnapshotSock ==
    /\ started
    /\ Tap1Installed
    /\ thr["worker"].pc = "idle"
    /\ ~thr["worker"].snap
    /\ thr' = [thr EXCEPT !["worker"].snap = TRUE]
    /\ UNCHANGED <<sockerr, eui, mac_indexed_clients, dhcp_server_on_link, files, sysfs, events,
                   clients, started, ra, last, fsops, ifops, socket, loop>>

\* thread t calls binding.sendp(resp) on tap1's Client: a callback of the
\* main thread that found it in the store, or the worker's walk
SendpBegin(t) ==
    /\ started
    /\ thr[t].pc = "idle"
    /\ thr[t].sends < MaxSends
    /\ IF t = "main" THEN Tap1Installed ELSE thr[t].snap
    /\ thr' = [thr EXCEPT ![t].pc = "load", ![t].sends = @ + 1, ![t].res = "none"]
    /\ UNCHANGED <<sockerr, eui, mac_indexed_clients, dhcp_server_on_link, files, sysfs, events,
                   clients, started, ra, last, fsops, ifops, socket, loop>>

\* sendp: self.socket is evaluated; AttributeError leaves sendp when the
\* attribute was never set
SendpLoad(t) ==
    /\ thr[t].pc = "load"
    /\ thr' = IF socket.attr = 0
              THEN [thr EXCEPT ![t].pc = "idle", ![t].res = "attrerror"]
              ELSE [thr EXCEPT ![t].pc = "send", ![t].ref = socket.attr]
    /\ UNCHANGED <<sockerr, eui, mac_indexed_clients, dhcp_server_on_link, files, sysfs, events,
                   clients, started, ra, last, fsops, ifops, socket, loop>>

\* sendp: send(data, MSG_DONTWAIT) on the socket evaluated; it raises
\* socket.error on a closed socket and can raise it on an open one
SendpSend(t) ==
    /\ thr[t].pc = "send"
    /\ \E ok \in {b \in BOOLEAN : b => thr[t].ref \in socket.open} :
         thr' = IF ok THEN [thr EXCEPT ![t].pc = "idle", ![t].res = "sent"]
                ELSE [thr EXCEPT ![t].pc = "close"]
    /\ UNCHANGED <<sockerr, eui, mac_indexed_clients, dhcp_server_on_link, files, sysfs, events,
                   clients, started, ra, last, fsops, ifops, socket, loop>>

\* sendp's except branch: self.socket.close()
SendpClose(t) ==
    /\ thr[t].pc = "close"
    /\ socket' = Client_close(socket, t)
    /\ thr' = [thr EXCEPT ![t].pc = "reopen"]
    /\ UNCHANGED <<sockerr, eui, mac_indexed_clients, dhcp_server_on_link, files, sysfs, events,
                   clients, started, ra, last, fsops, ifops, loop>>

\* sendp's except branch: self.open_socket()
SendpReopen(t) ==
    /\ thr[t].pc = "reopen"
    /\ socket' = sendp_reopen(socket)
    /\ thr' = [thr EXCEPT ![t].pc = "raise"]
    /\ UNCHANGED <<sockerr, eui, mac_indexed_clients, dhcp_server_on_link, files, sysfs, events,
                   clients, started, ra, last, fsops, ifops, loop>>

\* sendp's except branch: raise e, caught and logged by the caller, which
\* goes on
SendpRaise(t) ==
    /\ thr[t].pc = "raise"
    /\ thr' = [thr EXCEPT ![t].pc = "idle", ![t].res = "sendfailed"]
    /\ UNCHANGED <<sockerr, eui, mac_indexed_clients, dhcp_server_on_link, files, sysfs, events,
                   clients, started, ra, last, fsops, ifops, socket, loop>>

\* tap1's file is deleted and the main thread handles IN_DELETE:
\* remove_tap closes the Client's socket and deletes it from the store
DeleteSock ==
    /\ started
    /\ thr["main"].pc = "idle"
    /\ Tap1Installed
    /\ files' = [x \in (DOMAIN files) \ {"tap1"} |-> files[x]]
    /\ clients' \in process_IN_DELETE(clients, "tap1")
    /\ socket' = Client_close(socket, "main")
    /\ UNCHANGED <<sockerr, eui, mac_indexed_clients, dhcp_server_on_link, sysfs, events, started,
                   ra, last, fsops, ifops, thr, loop>>

\* the two threads sending on the Client of tap1
InitSock == InitFrom({FileFull}, {FALSE}) /\ DOMAIN files = {"tap1"}

NextSock ==
    \/ ServeSock
    \/ SnapshotSock
    \/ \E t \in Threads : SendpBegin(t)
    \/ \E t \in Threads : SendpLoad(t)
    \/ \E t \in Threads : SendpSend(t)
    \/ \E t \in Threads : SendpClose(t)
    \/ \E t \in Threads : SendpReopen(t)
    \/ \E t \in Threads : SendpRaise(t)
    \/ DeleteSock
    \/ IfaceDown("tap1")

SpecSock == InitSock /\ [][NextSock]_vars

\* the fds _serve selects on: the watcher's and those of two queues
Fds == {"iwfd"} \cup QueueFds

\* the packets a queue can hold
PacketsOf(q) ==
    CASE q = "dhcp" -> DhcpPackets
      [] q = "rs" -> RsPackets
      [] q = "ns" -> NsPackets
      [] q = "dhcpv6" -> Dhcpv6Packets

\* the except clauses of the drain catching RuntimeError alone
loop_catches_runtime_only(exc) == exc = "RuntimeError"

\* the except clauses around q.process_pending: RuntimeError, Exception
loop_catches(exc) == exc \in {"RuntimeError", "Exception"}

\* the time a select with the loop's timeout can take: up to the timeout,
\* and when nothing gets ready the whole of it
select_lasts(lp, R, d) ==
    /\ d >= 0
    /\ lp.now + d <= MaxTime
    /\ lp.timeout # NoTimeout => d <= lp.timeout
    /\ R = {} => (lp.timeout # NoTimeout /\ d = lp.timeout)

\* select returns the fds that are ready, one of Rs, after one of Ds ticks
LoopSelect(Rs, Ds) ==
    /\ started
    /\ loop.pc = "select"
    /\ loop.wakes < MaxWakes
    /\ \E R \in Rs : \E d \in Ds :
         /\ select_lasts(loop, R, d)
         /\ loop' = [loop EXCEPT !.pc = "watcher", !.bound = TRUE,
                                 !.fresh = TRUE, !.rlist = R, !.todo = {},
                                 !.drained = {}, !.wakes = @ + 1,
                                 !.now = @ + d, !.retry = FALSE,
                                 !.ready = R, !.applied = <<>>]
    /\ UNCHANGED <<sockerr, eui, mac_indexed_clients, dhcp_server_on_link, files, sysfs, events,
                   clients, started, ra, last, fsops, ifops, socket, thr>>

\* select raises select.error with EINTR after one of Ds ticks: continue,
\* which goes back to select with timeout as it is
LoopEINTR(Ds) ==
    /\ started
    /\ loop.pc = "select"
    /\ loop.wakes < MaxWakes
    /\ \E d \in Ds :
         /\ select_lasts(loop, Fds, d)
         /\ loop' = [loop EXCEPT !.wakes = @ + 1, !.now = @ + d,
                                 !.retry = TRUE]
    /\ UNCHANGED <<sockerr, eui, mac_indexed_clients, dhcp_server_on_link, files, sysfs, events,
                   clients, started, ra, last, fsops, ifops, socket, thr>>

\* select raises select.error with another errno: the except clause ends
\* and the iteration goes on with rlist and xlist as they are, which raises
\* UnboundLocalError out of _serve when no select has returned yet
LoopSelectError(Ds) ==
    /\ started
    /\ loop.pc = "select"
    /\ loop.wakes < MaxWakes
    /\ \E d \in Ds :
         /\ select_lasts(loop, Fds, d)
         /\ loop' = IF loop.bound
                    THEN [loop EXCEPT !.pc = "watcher", !.fresh = FALSE,
                                      !.todo = {}, !.drained = {},
                                      !.wakes = @ + 1, !.now = @ + d,
                                      !.retry = FALSE, !.applied = <<>>]
                    ELSE [loop EXCEPT !.pc = "exited", !.wakes = @ + 1,
                                      !.now = @ + d, !.retry = FALSE]
    /\ UNCHANGED <<sockerr, eui, mac_indexed_clients, dhcp_server_on_link, files, sysfs, events,
                   clients, started, ra, last, fsops, ifops, socket, thr>>

\* the watcher part of an iteration putting the events off
loop_watcher_deferred(cl, ev) == {cl}

\* notifier.read_events() and notifier.process_events() on the events
\* pending: the stores they can leave
loop_watcher(cl, ev) == process_events(cl, ev)

\* the watcher part of an iteration: read_events and process_events when
\* iwfd is in rlist, which is then removed from rlist
LoopWatcher ==
    /\ loop.pc = "watcher"
    /\ IF "iwfd" \in loop.rlist
       THEN /\ clients' \in loop_watcher(clients, events)
            /\ events' = <<>>
       ELSE UNCHANGED <<sockerr, clients, events>>
    /\ loop' = [loop EXCEPT !.pc = "drain", !.rlist = @ \ {"iwfd"},
                            !.todo = loop.rlist \ {"iwfd"},
                            !.applied = IF "iwfd" \in loop.rlist THEN events
                                        ELSE <<>>]
    /\ UNCHANGED <<sockerr, eui, mac_indexed_clients, dhcp_server_on_link, files, sysfs, started,
                   ra, last, fsops, ifops, socket, thr>>

\* read_events or process_events raises: nothing in _serve catches it
LoopWatcherFails ==
    /\ loop.pc = "watcher"
    /\ "iwfd" \in loop.rlist
    /\ loop' = [loop EXCEPT !.pc = "exited"]
    /\ UNCHANGED <<sockerr, eui, mac_indexed_clients, dhcp_server_on_link, files, sysfs, events,
                   clients, started, ra, last, fsops, ifops, socket, thr>>

\* the drain of one fd of rlist: process_pending runs the queue's callback
\* on a packet; an exception leaving the callback reaches the except
\* clauses of the drain
LoopDrain ==
    /\ loop.pc = "drain"
    /\ \E fd \in loop.todo :
         \E pkt \in PacketsOf(fd) :
           \E out \in ResponseOf(fd, clients, pkt) :
             /\ clients' = out.clients
             /\ last' = Done(fd, pkt, out)
             /\ loop' = IF out.raised /\ ~loop_catches("Exception")
                        THEN [loop EXCEPT !.pc = "exited"]
                        ELSE [loop EXCEPT !.todo = @ \ {fd},
                                          !.drained = @ \cup {fd}]
    /\ UNCHANGED <<sockerr, eui, mac_indexed_clients, dhcp_server_on_link, files, sysfs, events,
                   started, ra, fsops, ifops, socket, thr>>

\* the test of the end of an iteration with the deadline one tick nearer
ra_due_early(timeout) == timeout <= 1

\* the test of the end of an iteration: if timeout <= 0
ra_due(timeout) == timeout <= 0

\* the end of an iteration that began d ticks ago: with ipv6_enabled
\* timeout = ra_period - (time.time() - start), and when that is not
\* positive start = time.time(), send_periodic_ra() and timeout again
loop_epilogue(lp, d) ==
    IF ~lp.ipv6 THEN [lp EXCEPT !.now = @ + d]
    ELSE IF ra_due(ra_period - (lp.now + d - lp.start))
         THEN [lp EXCEPT !.now = @ + d, !.start = lp.now + d,
                         !.ras = @ + 1, !.walks = @ + 1,
                         !.timeout = ra_period]
         ELSE [lp EXCEPT !.now = @ + d,
                         !.timeout = ra_period - (lp.now + d - lp.start)]

\* the end of an iteration whose handling took one of Ds ticks: back to
\* select
LoopEnd(Ds) ==
    /\ loop.pc = "drain"
    /\ loop.todo = {}
    /\ \E d \in Ds :
         /\ loop.now + d <= MaxTime
         /\ loop' = [loop_epilogue(loop, d) EXCEPT !.pc = "select", !.ready = {},
                                                   !.applied = <<>>]
    /\ UNCHANGED <<sockerr, eui, mac_indexed_clients, dhcp_server_on_link, files, sysfs, events,
                   clients, started, ra, last, fsops, ifops, socket, thr>>

\* _cleanup without its notifier.stop()
cleanup_queues_only(lp) == [lp EXCEPT !.qopen = {}]

\* _cleanup: q.close() for every queue of self.nfq, then notifier.stop()
cleanup(lp) == [lp EXCEPT !.qopen = {}, !.watching = FALSE]

\* serve's finally clause once _serve is left: _cleanup, then the return
\* or the exception goes on to the caller
ServeFinally ==
    /\ loop.pc = "exited"
    /\ loop' = [cleanup(loop) EXCEPT !.pc = "returned"]
    /\ UNCHANGED <<sockerr, eui, mac_indexed_clients, dhcp_server_on_link, files, sysfs, events,
                   clients, started, ra, last, fsops, ifops, socket, thr>>

\* a wake that takes no time
NoWait == {0}

\* _serve, iteration by iteration
InitLoop == InitFrom({FileFull}, {FALSE})

NextLoop ==
    \/ Serve
    \/ \E t \in Taps : DeleteFile(t)
    \/ LoopSelect(SUBSET Fds, NoWait)
    \/ LoopEINTR(NoWait)
    \/ LoopSelectError(NoWait)
    \/ LoopWatcher
    \/ LoopWatcherFails
    \/ LoopDrain
    \/ LoopEnd(NoWait)
    \/ ServeFinally

SpecLoop == InitLoop /\ [][NextLoop]_vars

\* the waits and handling times of the timed loop
Waits == 0..ra_period

\* _serve with the clock running, IPv6 enabled or not, no binding file and
\* no packet queued
InitTimer ==
    /\ mac_indexed_clients = FALSE
    /\ dhcp_server_on_link = FALSE
    /\ files = [t \in {} |-> FileFull]
    /\ sysfs = [i \in Ifaces |-> CASE i = "tap1" -> 1 [] i = "tap2" -> 2
                                       [] OTHER -> MaxIfindex + 1]
    /\ events = <<>>
    /\ clients = EmptyStore
    /\ started = FALSE
    /\ ra = <<>>
    /\ last = Idle
    /\ fsops = 0
    /\ ifops = 0
    /\ socket = NoSocket
    /\ thr = [t \in Threads |-> ThrIdle]
    /\ \E e \in BOOLEAN : loop = [LoopStart EXCEPT !.ipv6 = e]
    /\ eui = NoEui
    /\ sockerr = FALSE

NextTimer ==
    \/ Serve
    \/ LoopSelect(SUBSET {"iwfd"}, Waits)
    \/ LoopEINTR(Waits)
    \/ LoopSelectError(Waits)
    \/ LoopWatcher
    \/ LoopWatcherFails
    \/ LoopEnd(Waits)
    \/ ServeFinally

SpecTimer == InitTimer /\ [][NextTimer]_vars

\* the link-local address of the MAC is built and printed
MakeLL ==
    /\ eui.pc = "mac"
    /\ eui' = [eui EXCEPT !.pc = "ll", !.ll = strCompressed(make_ll64(eui.mac))]
    /\ UNCHANGED <<sockerr, mac_indexed_clients, dhcp_server_on_link, files, sysfs, events,
                   clients, started, ra, last, fsops, ifops, socket, thr, loop>>

\* the MAC is read back from the printed address
Invert ==
    /\ eui.pc = "ll"
    /\ eui' = [eui EXCEPT !.pc = "done", !.back = ipv62mac(eui.ll)]
    /\ UNCHANGED <<sockerr, mac_indexed_clients, dhcp_server_on_link, files, sysfs, events,
                   clients, started, ra, last, fsops, ifops, socket, thr, loop>>

\* make_ll64 then ipv62mac on any MAC of six octets of Octets
InitEui ==
    /\ mac_indexed_clients = FALSE
    /\ dhcp_server_on_link = FALSE
    /\ files = [t \in {} |-> FileFull]
    /\ sysfs = [i \in Ifaces |-> CASE i = "tap1" -> 1 [] i = "tap2" -> 2
                                       [] OTHER -> MaxIfindex + 1]
    /\ events = <<>>
    /\ clients = EmptyStore
    /\ started = FALSE
    /\ ra = <<>>
    /\ last = Idle
    /\ fsops = 0
    /\ ifops = 0
    /\ socket = NoSocket
    /\ thr = [t \in Threads |-> ThrIdle]
    /\ loop = LoopStart
    /\ \E m \in [1..6 -> Octets] : eui = [NoEui EXCEPT !.pc = "mac", !.mac = m]
    /\ sockerr = FALSE

NextEui ==
    \/ MakeLL
    \/ Invert

SpecEui == InitEui /\ [][NextEui]_vars

-----------------------------------------------------------------------------
(* Properties *)

V6Protos == {"ra", "na", "dhcpv6"}

\* C1: every callback, on every packet and store, has set exactly one
\* verdict when it returns or raises.
C1_ExactlyOneVerdict ==
    last.q \in Queues => Len(last.verdicts) = 1

\* C2: when get_binding finds no binding, the verdict is ACCEPT, no frame is
\* sent and the store is as it was before the callback.
C2_UnknownAccepted ==
    (last.q \in Queues /\ last.lookup = "none") =>
        /\ last.verdicts = <<NF_ACCEPT>>
        /\ last.frames = <<>>
        /\ clients = last.pre

\* a packet missed a store that holds bindings
C2_Witness ==
    last.q \in Queues /\ last.lookup = "none" /\ DOMAIN clients # {}

\* C3: when get_binding finds a binding, the verdict is DROP (once, and
\* never ACCEPT), whatever the callback does next.
C3_KnownDropped ==
    (last.q \in Queues /\ last.lookup = "found") => last.verdicts = <<NF_DROP>>

\* a binding was found and its indev's hardware address could not be read
C3_Witness ==
    last.q \in Queues /\ last.lookup = "found" /\ last.stage = "noindevmac"

\* C4: in the DHCPv4, RS and NS callbacks, a request MAC that differs from
\* the MAC of the binding found gets no frame when the binding has no
\* macspoof; when it has macspoof the callback ends as it can end on the
\* same packet carrying the binding's MAC (same place, frames and verdict).
C4_SpoofPolicy ==
    (/\ last.q \in {"dhcp", "rs", "ns"}
     /\ last.lookup = "found"
     /\ last.pkt.mac # last.binding[1].mac) =>
        IF last.binding[1].macspoof = None
        THEN last.frames = <<>> /\ last.stage = "spoof"
        ELSE \E o \in ResponseOf(last.q, last.pre,
                                 [last.pkt EXCEPT !.mac = last.binding[1].mac]) :
                 /\ o.stage = last.stage
                 /\ o.frames = last.frames
                 /\ o.verdicts = last.verdicts
                 /\ o.clients = clients

\* a DISCOVER with a foreign chaddr on the tap of a binding with an ip and
\* without macspoof was ignored
C4_Witness ==
    /\ last.q = "dhcp" /\ last.lookup = "found" /\ last.stage = "spoof"
    /\ last.pkt.req_type = DHCPDISCOVER
    /\ last.binding[1].ip # None /\ last.binding[1].macspoof = None
    /\ last.pkt.mac # last.binding[1].mac

\* a request with a foreign MAC was answered by a binding with macspoof
C4_WitnessMacspoof ==
    /\ last.q \in {"dhcp", "ns"} /\ last.lookup = "found" /\ last.stage = "sent"
    /\ last.binding[1].macspoof # None
    /\ last.pkt.mac # last.binding[1].mac

\* C5: no DHCPv4 frame is sent for a binding whose ip is absent, whatever
\* the request.
C5_NoIpNoReply ==
    (last.q = "dhcp" /\ last.lookup = "found" /\ last.binding[1].ip = None) =>
        last.frames = <<>>

\* a DISCOVER from the binding's own MAC found a binding without ip
C5_Witness ==
    /\ last.q = "dhcp" /\ last.lookup = "found" /\ last.binding[1].ip = None
    /\ last.pkt.dhcp /\ last.pkt.req_type = DHCPDISCOVER
    /\ last.pkt.mac = last.binding[1].mac

\* C6: no RA, NA or DHCPv6 Reply is sent, by a callback or by the RA
\* worker, for a binding whose subnet6 is absent.
C6_NoSubnet6NoV6 ==
    \A n \in 1..Len(last.frames) :
        last.frames[n].proto \in V6Protos => last.binding[1].subnet6 # None

\* the RA worker visited a binding without subnet6
C6_Witness ==
    last.q = "ra" /\ last.binding # <<>> /\ last.binding[1].subnet6 = None

\* the reply type of the table of the DHCPv4 responder
C7_Table(req_type, requested_addr, ip) ==
    CASE req_type = DHCPDISCOVER -> DHCPOFFER
      [] req_type = DHCPREQUEST /\ requested_addr \in {None, ip} -> DHCPACK
      [] req_type = DHCPREQUEST -> DHCPNAK
      [] req_type = DHCPINFORM -> DHCPACK

\* C7: a non-spoofed DISCOVER, REQUEST or INFORM that found a binding with
\* an ip gets exactly one frame, of the type the table gives, and a RELEASE
\* gets none.  (Stated for the global server IP and for sends that do not
\* fail.)
C7_ReplyTable ==
    (/\ last.q = "dhcp" /\ last.lookup = "found"
     /\ last.pkt.dhcp
     /\ last.binding[1].ip # None
     /\ (last.pkt.mac = last.binding[1].mac \/ last.binding[1].macspoof # None)
     /\ ~dhcp_server_on_link
     /\ last.stage # "sendfailed"
     /\ last.pkt.req_type \in {DHCPDISCOVER, DHCPREQUEST, DHCPINFORM, DHCPRELEASE}) =>
        IF last.pkt.req_type = DHCPRELEASE THEN last.frames = <<>>
        ELSE /\ Len(last.frames) = 1
             /\ last.frames[1].proto = "dhcp"
             /\ last.frames[1].type =
                  C7_Table(last.pkt.req_type, last.pkt.requested_addr,
                           last.binding[1].ip)

\* C8: once the watcher has nothing pending, every entry of the store is
\* for a file that exists and parses to a valid binding.
C8_StoreMatchesFiles ==
    (started /\ events = <<>>) =>
        \A k \in DOMAIN clients :
            /\ parse_binding_file(clients[k].tap).status = "Client"
            /\ is_valid(parse_binding_file(clients[k].tap).client)

\* C9: every binding in the store has a mac and a hostname.
C9_StoredAreValid ==
    \A k \in DOMAIN clients : clients[k].mac # None /\ clients[k].hostname # None

\* the file of tap1 has no HOSTNAME, its tap exists, the watcher has nothing
\* pending and the store holds the other tap's binding
C9_Witness ==
    /\ started /\ events = <<>>
    /\ "tap1" \in DOMAIN files /\ files["tap1"] = FileNoHostname
    /\ sysfs["tap1"] # 0
    /\ DOMAIN clients # {}

\* C10: handling a batch of events that ends in IN_Q_OVERFLOW leaves the
\* store build_config would leave on the data directory as it is.
C10_OverflowRebuilds ==
    [][(/\ started
        /\ events # <<>>
        /\ events[Len(events)] = IN_Q_OVERFLOW
        /\ events' = <<>>) => clients' \in build_config]_vars

\* C11: the watcher handling the events of a file whose MTU value is not
\* an integer installs nothing: the store is left as it was (and the handler
\* returns, the exception being absorbed by add_tap).
C11_BadMtuContained ==
    [][(/\ started
        /\ events # <<>>
        /\ events' = <<>>
        /\ "tap1" \in DOMAIN files
        /\ files["tap1"].mtu \notin {NoLine, "", "0", "1400"}) =>
            clients' = clients]_vars

\* the file of an installed tap was rewritten with MTU=abc and the watcher
\* has handled the event
C11_Witness ==
    /\ started /\ events = <<>> /\ fsops > 0
    /\ "tap1" \in DOMAIN files /\ files["tap1"] = FileBadMtu
    /\ DOMAIN clients # {}

\* C12: once the watcher has nothing pending, a file with MAC and HOSTNAME
\* values whose other lines are well-formed or have an empty value has its
\* binding in the store, each field being the line's value, absent for no
\* line and for an empty value.
C12_EmptyValueAbsent ==
    (/\ started /\ events = <<>>
     /\ "tap1" \in DOMAIN files
     /\ Field(files["tap1"], "mac") # None
     /\ Field(files["tap1"], "hostname") # None
     /\ files["tap1"].mtu \in {NoLine, "", "1400"}) =>
        \E k \in DOMAIN clients :
            /\ clients[k].tap = "tap1"
            /\ \A key \in TextKeys : clients[k][key] = Field(files["tap1"], key)
            /\ clients[k].mtu = IF files["tap1"].mtu = "1400" THEN 1400 ELSE NoMtu

\* C13: when a callback or the RA walk could not read the hardware address
\* of the indev of the binding it works for, that binding is no longer in
\* the store.
C13_GoneRemoved ==
    (last.binding # <<>> /\ last.stage \in {"noindevmac", "abort"}) =>
        \A k \in DOMAIN clients : clients[k] # last.binding[1]

\* C14: a packet its callback cannot decode (no BOOTP layer on the DHCPv4
\* queue, no MAC from the source of an RS, no link-layer option in an NS)
\* has verdict DROP when the callback ends.
C14_MalformedDropped ==
    (\/ last.q = "dhcp" /\ ~last.pkt.bootp
     \/ last.q \in {"rs", "ns"} /\ last.pkt.mac = None) =>
        last.verdicts = <<NF_DROP>>

\* C15: when the RA worker fails on a binding of its snapshot (its indev's
\* address is unreadable, or the send fails) while a later binding of the
\* snapshot has a subnet6 and a readable indev, the walk goes on with the
\* rest of the snapshot.
C15_WalkGoesOn ==
    [][(/\ ra # <<>>
        /\ last'.q = "ra"
        /\ last'.stage \in {"abort", "sendfailed"}
        /\ \E n \in 2..Len(ra) : /\ ra[n].subnet6 # None
                                  /\ ra[n].indev # None
                                  /\ sysfs[ra[n].indev] # 0) =>
            ra' = Tail(ra)]_vars

\* C16: a step of the RA worker leaves the store as it is.
C16_WorkerOnlyReads ==
    [][last'.q = "ra" => clients' = clients]_vars

\* C17: no thread is about to send on the socket the Client names after the
\* other thread closed it, and no thread is in the close/reopen part of
\* sendp while the other is about to send on the same Client.
C17_SocketSafe ==
    /\ \A t \in Threads :
          (thr[t].pc = "send" /\ thr[t].ref = socket.attr) =>
              \A c \in socket.closed : c[1] = thr[t].ref => c[2] = t
    /\ \A t, u \in Threads :
          (t # u /\ thr[t].pc \in {"close", "reopen"}) => thr[u].pc # "send"

\* C18: in sendp a failed send goes to the close, the close leaves the
\* socket the Client named closed, the open_socket that follows makes the
\* Client name a new open socket when tap1 exists, and the raise that
\* follows is caught by the caller, which goes on.
C18_SendFailureReopens ==
    [][\A t \in Threads :
         /\ (thr[t].pc = "send" /\ thr'[t].pc # "send" /\ thr'[t].res # "sent") =>
                thr'[t].pc = "close"
         /\ (thr[t].pc = "close" /\ thr'[t].pc # "close") =>
                (thr'[t].pc = "reopen" /\ socket.attr \notin socket'.open)
         /\ (thr[t].pc = "reopen" /\ thr'[t].pc # "reopen") =>
                /\ thr'[t].pc = "raise"
                /\ sysfs["tap1"] # 0 =>
                      (socket'.attr \in socket'.open /\ socket'.attr # socket.attr)
         /\ (thr[t].pc = "raise" /\ thr'[t].pc # "raise") =>
                (thr'[t].pc = "idle" /\ thr'[t].res = "sendfailed")]_vars

\* a sendp whose send failed has returned to its caller and the Client names
\* a socket opened since, which is open
C18_Witness ==
    \E t \in Threads :
        /\ thr[t].pc = "idle" /\ thr[t].res = "sendfailed"
        /\ socket.attr > 1 /\ socket.attr \in socket.open

\* C19: when a callback raises while a ready fd is drained, _serve stays in
\* its drain with that fd done and the other ready fds still to drain.
C19_ResponderExceptionCaught ==
    [][(loop.pc = "drain" /\ loop.todo # {} /\ last'.raised) =>
          /\ loop'.pc = "drain"
          /\ \E fd \in loop.todo : /\ last'.q = fd
                                    /\ loop'.todo = loop.todo \ {fd}
                                    /\ loop'.drained = loop.drained \cup {fd}]_vars

\* a callback raised on the second ready fd of a wake whose first was
\* drained too, and the iteration has nothing left to drain
C19_Witness ==
    /\ loop.pc = "drain" /\ loop.todo = {} /\ loop.drained = QueueFds
    /\ last.q \in Queues /\ last.raised

\* C20: _serve has not exited, and the fds an iteration handles are those
\* the select of that iteration returned.
C20_NeverExitsNorStale ==
    /\ loop.pc # "exited"
    /\ loop.pc \in {"watcher", "drain"} => loop.fresh

\* C21: a select that retries an interrupted one comes after an
\* interruption that left the RA deadline start + ra_period as it was, and
\* its timeout ends no later than that deadline.
C21_RetryWithinDeadline ==
    (started /\ loop.ipv6 /\ loop.pc = "select" /\ loop.retry) =>
        loop.now + loop.timeout <= loop.start + ra_period

\* C22: send_periodic_ra is called once when _serve starts with IPv6
\* enabled, then at the end of exactly those iterations that find
\* ra_period or more elapsed since start, which resets start; two calls in
\* a row are ra_period or more apart; without IPv6 it is never called.
C22_RaSchedule ==
    [][/\ (~started /\ started') =>
              loop'.ras = (IF loop.ipv6 THEN 1 ELSE 0)
       /\ (started /\ loop.pc = "drain" /\ loop'.pc = "select") =>
              IF loop.ipv6 /\ loop'.now - loop.start >= ra_period
              THEN loop'.ras = loop.ras + 1 /\ loop'.start = loop'.now
              ELSE loop'.ras = loop.ras /\ loop'.start = loop.start
       /\ (started' = started /\ ~(loop.pc = "drain" /\ loop'.pc = "select")) =>
              (loop'.ras = loop.ras /\ loop'.start = loop.start)
       /\ (loop'.ras > loop.ras /\ loop.ras > 0) =>
              loop'.now - loop.start >= ra_period
       /\ ~loop.ipv6 => loop'.ras = 0]_vars

\* the broadcast of the start of _serve and two periodic ones were started
C22_Witness ==
    loop.ipv6 /\ loop.ras = 3 /\ loop.start = 2 * ra_period

\* C23: once serve has returned or let the exception go on, no queue
\* handle is open and the notifier is stopped.
C23_CleanupOnExit ==
    loop.pc = "returned" => (loop.qopen = {} /\ ~loop.watching)

\* _serve was left by an exception after a select had returned, and serve
\* is over
C23_Witness ==
    loop.pc = "returned" /\ loop.bound


\* C24: with the store keyed by MAC, dhcpv6_response finds no binding
\* whatever the store holds: the verdict is ACCEPT, nothing is sent and the
\* store is left as it was.
C24_Dhcpv6MacModeAccepts ==
    (last.q = "dhcpv6" /\ mac_indexed_clients) =>
        /\ last.lookup = "none"
        /\ last.verdicts = <<NF_ACCEPT>>
        /\ last.frames = <<>>
        /\ ~last.raised
        /\ MacKey(None) \notin DOMAIN clients

\* a DHCPv6 packet was handled on a MAC-keyed store that holds a binding
C24_Witness ==
    /\ last.q = "dhcpv6" /\ mac_indexed_clients
    /\ DOMAIN last.pre # {}
    /\ last.pkt.inforeq


\* C25 as stated: for an NS that found a binding with a subnet6 and whose
\* MAC is not spoofed, the verdict is DROP and a Neighbor Advertisement is
\* sent exactly when the target is in subnet6 or is the link-local address
\* of the indev; nothing else is sent.
C25_NaIffTarget ==
    (/\ last.q = "ns" /\ last.lookup = "found"
     /\ ~no_subnet6(last.binding[1])
     /\ ~spoofed(last.pkt.mac, last.binding[1])) =>
        /\ last.verdicts = <<NF_DROP>>
        /\ Len(last.frames) <= 1
        /\ (last.frames # <<>>) <=> (last.pkt.tgt \in {TgtInSubnet, TgtIfll})
        /\ \A i \in 1..Len(last.frames) : last.frames[i].proto = "na"

\* C25, amended: the same NS on a binding whose indev is set and has a
\* readable hardware address; the Neighbor Advertisement is built and
\* handed to the binding's socket exactly when the target is in subnet6 or
\* is the link-local address of the indev, and it is the one frame sent
\* unless the send fails; the verdict is DROP either way.
C25_NaIffTargetReadable ==
    (/\ last.q = "ns" /\ last.lookup = "found"
     /\ ~no_subnet6(last.binding[1])
     /\ ~spoofed(last.pkt.mac, last.binding[1])
     /\ last.binding[1].indev # None
     /\ sysfs[last.binding[1].indev] # 0) =>
        /\ last.verdicts = <<NF_DROP>>
        /\ ~last.raised
        /\ (last.stage \in {"sent", "sendfailed"}) <=> (last.pkt.tgt \in {TgtInSubnet, TgtIfll})
        /\ (last.stage = "sent") <=> (last.frames # <<>>)
        /\ last.stage = "sent" =>
               /\ Len(last.frames) = 1
               /\ last.frames[1].proto = "na"
               /\ last.frames[1].tap = last.binding[1].tap
               /\ last.frames[1].src = HostMac

\* an NS for the link-local address of the indev was answered
C25_Witness ==
    /\ last.q = "ns" /\ last.lookup = "found"
    /\ ~no_subnet6(last.binding[1])
    /\ ~spoofed(last.pkt.mac, last.binding[1])
    /\ last.pkt.tgt = TgtIfll
    /\ last.stage = "sent" /\ Len(last.frames) = 1


\* C26: an RS that found a binding with a subnet6, a non-spoofed MAC and a
\* readable indev hardware address is answered by one Router Advertisement
\* on the binding's tap whose O flag is 1 exactly when DHCPv6 is enabled,
\* and every periodic Router Advertisement has O = 1.
C26_RsAnsweredByRa ==
    /\ (/\ last.q = "rs" /\ last.lookup = "found"
        /\ ~no_subnet6(last.binding[1])
        /\ ~spoofed(last.pkt.mac, last.binding[1])
        /\ last.binding[1].indev # None
        /\ sysfs[last.binding[1].indev] # 0) =>
           /\ last.stage \in {"sent", "sendfailed"}
           /\ last.stage = "sent" =>
                  /\ Len(last.frames) = 1
                  /\ last.frames[1].proto = "ra"
                  /\ last.frames[1].tap = last.binding[1].tap
                  /\ last.frames[1].O = (IF enable_dhcpv6 THEN 1 ELSE 0)
    /\ last.q = "ra" =>
           \A i \in 1..Len(last.frames) :
               last.frames[i].proto = "ra" /\ last.frames[i].O = 1

\* C27: an OFFER or ACK to a DISCOVER or REQUEST has the router option
\* exactly when the binding has a gateway and no private, and the
\* interface_mtu option exactly when the binding has an mtu, 0 included; a
\* NAK has no address, lease, router, mtu or name-server option.
C27_ReplyOptions ==
    (last.q = "dhcp" /\ last.frames # <<>>) =>
        /\ (/\ last.frames[1].type \in {DHCPOFFER, DHCPACK}
            /\ last.pkt.req_type \in {DHCPDISCOVER, DHCPREQUEST}) =>
               /\ ("router" \in last.frames[1].opts) <=>
                      (/\ last.binding[1].gateway # None
                       /\ last.binding[1].private = None)
               /\ ("interface_mtu" \in last.frames[1].opts) <=>
                      (last.binding[1].mtu # NoMtu)
        /\ last.frames[1].type = DHCPNAK =>
               last.frames[1].opts \cap
                   {"broadcast_address", "subnet_mask", "lease_time",
                    "renewal_time", "router", "interface_mtu",
                    "name_server"} = {}

\* C28: the ACK to an INFORM has no option besides hostname, domain,
\* name_server, message-type and server_id and has yiaddr zero whatever the
\* yiaddr of the request; an OFFER or ACK to a DISCOVER or REQUEST has
\* yiaddr = binding.ip.
C28_InformAck ==
    (last.q = "dhcp" /\ last.frames # <<>>) =>
        /\ last.pkt.req_type = DHCPINFORM =>
               /\ last.frames[1].type = DHCPACK
               /\ last.frames[1].opts \subseteq
                      {"hostname", "domain", "name_server", "message-type",
                       "server_id"}
               /\ last.frames[1].yiaddr = ZeroAddr
        /\ (/\ last.frames[1].type \in {DHCPOFFER, DHCPACK}
            /\ last.pkt.req_type \in {DHCPDISCOVER, DHCPREQUEST}) =>
               last.frames[1].yiaddr = last.binding[1].ip


\* the spelling of a MAC in lower-case digits
LowerMac(mac) ==
    [i \in 1..Len(mac) |-> [j \in 1..Len(mac[i]) |-> LowerHex[HexVal(mac[i][j]) + 1]]]

\* C29 as stated: ipv62mac of the printed make_ll64(m) is m.
C29_RoundTrip ==
    eui.pc = "done" => eui.back = eui.mac

\* C29, amended: ipv62mac of the printed make_ll64(m) is m spelled in
\* lower-case digits, which is m when m is spelled so.
C29_RoundTripLower ==
    eui.pc = "done" =>
        /\ eui.back = LowerMac(eui.mac)
        /\ eui.mac = LowerMac(eui.mac) => eui.back = eui.mac

\* a MAC 02:00:..:00:00, whose address prints with a run of four zero
\* groups cut out and a last group "0", came back
C29_Witness ==
    /\ eui.pc = "done"
    /\ eui.mac[1] = <<"0", "2">> /\ eui.mac[2] = <<"0", "0">>
    /\ eui.mac[5] = <<"0", "0">> /\ eui.mac[6] = <<"0", "0">>
    /\ Len(eui.ll) = 5 /\ eui.ll[2] = <<>> /\ eui.ll[5] = <<"0">>
    /\ eui.back = eui.mac


\* C30: in an iteration whose select returned the watcher fd and a queue
\* fd, the step that handles the watcher applies every pending event to
\* the store and dispatches no packet, and every packet of the iteration
\* is dispatched after it and looked up in the store as it is then.
C30_EventsBeforePackets ==
    [][/\ (loop.pc = "watcher" /\ loop'.pc = "drain" /\ "iwfd" \in loop.rlist) =>
              /\ clients' \in process_events(clients, events)
              /\ events' = <<>>
              /\ loop'.applied = events
              /\ last' = last
       /\ (/\ loop.fresh /\ "iwfd" \in loop.ready
           /\ last' # last /\ last'.q \in QueueFds) =>
              /\ loop.pc = "drain"
              /\ "iwfd" \notin loop.rlist
              /\ last'.q \in loop.ready
              /\ last'.pre = clients]_vars

\* the file of tap1 was deleted, the select returned the watcher fd and the
\* DHCP queue fd, and the DHCP packet from tap1 found no binding
C30_Witness ==
    /\ loop.pc = "drain" /\ loop.fresh
    /\ {"iwfd", "dhcp"} \subseteq loop.ready
    /\ loop.applied = <<IN_DELETE("tap1")>>
    /\ last.q = "dhcp" /\ last.pkt.indev = 1 /\ last.pkt.bootp
    /\ last.lookup = "none" /\ last.pre = EmptyStore


\* C31: every open transmit socket is the socket of a binding that is in
\* the store.
C31_SocketsFollowStore ==
    socket.open # {} =>
        /\ Tap1Installed
        /\ socket.open = {socket.attr}


-----------------------------------------------------------------------------
\* The store under removals: the watcher installing and removing bindings
\* while taps are re-created and the process at times cannot open a socket.

\* the environment: socket()/bind start, or stop, raising socket.error for
\* a reason that is not the tap (open_socket's except branch)
SocketLimit(b) ==
    /\ sockerr # b
    /\ sockerr' = b
    /\ last' = Idle
    /\ UNCHANGED <<mac_indexed_clients, dhcp_server_on_link, files, sysfs, events,
                   clients, started, ra, fsops, ifops, socket, thr, loop, eui>>

InitRemove == InitFrom({FileFull}, {FALSE})

NextRemove ==
    \/ \E t \in Taps : WriteFile(t, FileFull)
    \/ \E t \in Taps : DeleteFile(t)
    \/ \E i \in Taps : IfaceDown(i)
    \/ \E i \in Taps, n \in Ifindexes : IfaceUp(i, n)
    \/ \E b \in BOOLEAN : SocketLimit(b)
    \/ Serve
    \/ WatcherReady

SpecRemove == InitRemove /\ [][NextRemove]_vars

\* C32: when the watcher handles IN_DELETE for a tap, afterwards no binding
\* of the store has that tap, and every binding of another tap is still
\* there, unchanged.
C32_RemoveTapRemoves ==
    [][(/\ started
        /\ Len(events) = 1
        /\ events[1].type = "IN_DELETE"
        /\ events' = <<>>) =>
          LET tap == events[1].name IN
          /\ \A k \in DOMAIN clients' : clients'[k].tap # tap
          /\ DOMAIN clients' \subseteq DOMAIN clients
          /\ \A k \in DOMAIN clients :
                clients[k].tap # tap =>
                    k \in DOMAIN clients' /\ clients'[k] = clients[k]]_vars


\* C33: in ifindex-keyed mode, when the watcher has handled the write of a
\* valid binding file whose tap exists, every entry of the store for that
\* tap is under the current interface index of the tap: none is left under
\* an index the tap had before.
C33_NoEntryUnderOldIndex ==
    [][(/\ started
        /\ ~mac_indexed_clients
        /\ Len(events) = 1
        /\ events[1].type = "IN_CLOSE_WRITE"
        /\ events' = <<>>
        /\ sysfs[events[1].name] # 0
        /\ parse_binding_file(events[1].name).status = "Client"
        /\ is_valid(parse_binding_file(events[1].name).client)) =>
          \A k \in DOMAIN clients' :
              clients'[k].tap = events[1].name =>
                  k = IfKey(sysfs[events[1].name])]_vars


-----------------------------------------------------------------------------
\* The RA workers: send_periodic_ra starts a thread on each call, and the
\* thread ends when its walk over the bindings has returned.  loop.walks is
\* the number of threads started and not yet ended.

\* a thread started by send_periodic_ra returns from _send_periodic_ra
WorkerReturns ==
    /\ loop.walks > 0
    /\ loop' = [loop EXCEPT !.walks = @ - 1]
    /\ UNCHANGED <<sockerr, eui, mac_indexed_clients, dhcp_server_on_link, files,
                   sysfs, events, clients, started, ra, last, fsops, ifops,
                   socket, thr>>

\* the daemon started on the binding file of tap1, IPv6 enabled
InitWalk == InitFrom({FileFull}, {FALSE}) /\ DOMAIN files = {"tap1"}

NextWalk ==
    \/ Serve
    \/ LoopSelect(SUBSET {"iwfd"}, Waits)
    \/ LoopEINTR(Waits)
    \/ LoopSelectError(Waits)
    \/ LoopWatcher
    \/ LoopWatcherFails
    \/ LoopEnd(Waits)
    \/ ServeFinally
    \/ WorkerReturns

SpecWalk == InitWalk /\ [][NextWalk]_vars

\* C34: at most one thread started by send_periodic_ra is running.
C34_OneWalkAtATime == loop.walks <= 1

=============================================================================
